---- MODULE Spec2Model ----
(***************************************************************************)
(* Model of the Gemini audio-expense client (geminiService):               *)
(*   blobToBase64, retryOperation, processAudioWithGemini.                 *)
(*                                                                         *)
(* A text is a sequence of one-character strings; a JSON string literal    *)
(* (quotes included) is kept as one element, because no code of the        *)
(* client looks inside one.  "nbsp" stands for U+00A0, a character that    *)
(* String.prototype.trim removes and that JSON.parse rejects; "bq" stands  *)
(* for the backquote U+0060.                                               *)
(***************************************************************************)
EXTENDS Integers, Sequences

\* ------------------------------------------------------------------ bounds
\* Largest amount the model service puts in a reply (SpecOne).
MaxAmount == 2
\* Largest number of expense items in a reply (SpecOne).
MaxExpenses == 2

\* --------------------------------------------------------- text primitives
\* Characters String.prototype.trim removes.
TrimWhiteSpace == {" ", "\n", "\t", "\r", "nbsp"}

\* Characters JSON.parse skips between tokens.
JsonWhiteSpace == {" ", "\n", "\t", "\r"}

Digits == {"0", "1", "2", "3", "4", "5", "6", "7", "8", "9"}

DigitValue(c) ==
  CASE c = "0" -> 0 [] c = "1" -> 1 [] c = "2" -> 2 [] c = "3" -> 3
    [] c = "4" -> 4 [] c = "5" -> 5 [] c = "6" -> 6 [] c = "7" -> 7
    [] c = "8" -> 8 [] c = "9" -> 9

DigitChar(d) ==
  CASE d = 0 -> "0" [] d = 1 -> "1" [] d = 2 -> "2" [] d = 3 -> "3"
    [] d = 4 -> "4" [] d = 5 -> "5" [] d = 6 -> "6" [] d = 7 -> "7"
    [] d = 8 -> "8" [] d = 9 -> "9"

\* String literals of the replies, each one element of a text.
StringLits == {"\"expenses\"", "\"amount\"", "\"totalAmount\"", "\"INR\""}

\* The string a literal denotes.
Unquote(c) ==
  CASE c = "\"expenses\"" -> "expenses"
    [] c = "\"amount\"" -> "amount"
    [] c = "\"totalAmount\"" -> "totalAmount"
    [] c = "\"INR\"" -> "INR"

RECURSIVE TrimStart(_)
TrimStart(s) ==
  IF s # <<>> /\ Head(s) \in TrimWhiteSpace THEN TrimStart(Tail(s)) ELSE s

RECURSIVE TrimEnd(_)
TrimEnd(s) ==
  IF s # <<>> /\ s[Len(s)] \in TrimWhiteSpace
    THEN TrimEnd(SubSeq(s, 1, Len(s) - 1))
    ELSE s

\* String.prototype.trim
Trim(s) == TrimEnd(TrimStart(s))

\* String.prototype.startsWith
StartsWith(s, p) == Len(s) >= Len(p) /\ SubSeq(s, 1, Len(p)) = p

\* s.replace(/^p/, ''): drops the literal p at the start of s, if there.
ReplaceAtStart(s, p) ==
  IF StartsWith(s, p) THEN SubSeq(s, Len(p) + 1, Len(s)) ELSE s

\* s.replace(/p$/, ''): drops the literal p at the very end of s, if there
\* (no m flag: $ matches at the end of the input only).
ReplaceAtEnd(s, p) ==
  IF Len(s) >= Len(p) /\ SubSeq(s, Len(s) - Len(p) + 1, Len(s)) = p
    THEN SubSeq(s, 1, Len(s) - Len(p))
    ELSE s

Fence == <<"bq", "bq", "bq">>
FenceJson == Fence \o <<"j", "s", "o", "n">>

\* The mutant of CleanText that forgets the closing fence.
CleanTextKeepsClosingFence(text) ==
  LET cleanText == Trim(text) IN
    IF StartsWith(cleanText, FenceJson) THEN ReplaceAtStart(cleanText, FenceJson)
    ELSE IF StartsWith(cleanText, Fence) THEN ReplaceAtStart(cleanText, Fence)
    ELSE cleanText

\* The cleaning of response.text before JSON.parse.
CleanText(text) ==
  LET cleanText == Trim(text) IN
    IF StartsWith(cleanText, FenceJson)
      THEN ReplaceAtEnd(ReplaceAtStart(cleanText, FenceJson), Fence)
    ELSE IF StartsWith(cleanText, Fence)
      THEN ReplaceAtEnd(ReplaceAtStart(cleanText, Fence), Fence)
    ELSE cleanText

\* ---------------------------------------------------------------- JSON.parse
\* The grammar of the replies: objects, arrays, non-negative integers and
\* string literals.  A parsed value is tagged: [t |-> "num", v |-> 3],
\* [t |-> "str", v |-> "x"], [t |-> "arr", v |-> <<...>>],
\* [t |-> "obj", v |-> [key |-> value]].
ParseFail == [ok |-> FALSE, val |-> [t |-> "none", v |-> 0], pos |-> 0]
ParseOk(val, pos) == [ok |-> TRUE, val |-> val, pos |-> pos]

RECURSIVE SkipWs(_, _)
SkipWs(s, p) ==
  IF p <= Len(s) /\ s[p] \in JsonWhiteSpace THEN SkipWs(s, p + 1) ELSE p

\* The digits of an integer from position p: [val, pos].
RECURSIVE ScanDigits(_, _, _)
ScanDigits(s, p, acc) ==
  IF p <= Len(s) /\ s[p] \in Digits
    THEN ScanDigits(s, p + 1, 10 * acc + DigitValue(s[p]))
    ELSE [val |-> acc, pos |-> p]

\* int = "0" | digit1-9 digit*
ParseNumber(s, p) ==
  IF s[p] = "0"
    THEN ParseOk([t |-> "num", v |-> 0], p + 1)
    ELSE LET r == ScanDigits(s, p, 0) IN ParseOk([t |-> "num", v |-> r.val], r.pos)

\* obj with key k set to val (a repeated key keeps the last value).
SetKey(obj, k, val) ==
  [x \in DOMAIN obj \cup {k} |-> IF x = k THEN val ELSE obj[x]]

RECURSIVE ParseValue(_, _)
RECURSIVE ParseElements(_, _, _)
RECURSIVE ParseMembers(_, _, _)

\* A value starting at or after position p (leading whitespace skipped).
ParseValue(s, p0) ==
  LET p == SkipWs(s, p0) IN
    IF p > Len(s) THEN ParseFail
    ELSE IF s[p] \in Digits THEN ParseNumber(s, p)
    ELSE IF s[p] \in StringLits
      THEN ParseOk([t |-> "str", v |-> Unquote(s[p])], p + 1)
    ELSE IF s[p] = "["
      THEN LET q == SkipWs(s, p + 1) IN
             IF q <= Len(s) /\ s[q] = "]"
               THEN ParseOk([t |-> "arr", v |-> <<>>], q + 1)
               ELSE ParseElements(s, p + 1, <<>>)
    ELSE IF s[p] = "{"
      THEN LET q == SkipWs(s, p + 1) IN
             IF q <= Len(s) /\ s[q] = "}"
               THEN ParseOk([t |-> "obj", v |-> <<>>], q + 1)
               ELSE ParseMembers(s, p + 1, <<>>)
    ELSE ParseFail

\* value (, value)* ] from position p, after the elements acc.
ParseElements(s, p, acc) ==
  LET r == ParseValue(s, p) IN
    IF ~r.ok THEN ParseFail
    ELSE LET q == SkipWs(s, r.pos) IN
      IF q > Len(s) THEN ParseFail
      ELSE IF s[q] = "," THEN ParseElements(s, q + 1, Append(acc, r.val))
      ELSE IF s[q] = "]" THEN ParseOk([t |-> "arr", v |-> Append(acc, r.val)], q + 1)
      ELSE ParseFail

\* string : value (, string : value)* } from position p, after the members acc.
ParseMembers(s, p, acc) ==
  LET k == SkipWs(s, p) IN
    IF k > Len(s) \/ s[k] \notin StringLits THEN ParseFail
    ELSE LET c == SkipWs(s, k + 1) IN
      IF c > Len(s) \/ s[c] # ":" THEN ParseFail
      ELSE LET r == ParseValue(s, c + 1) IN
        IF ~r.ok THEN ParseFail
        ELSE LET q == SkipWs(s, r.pos)
                 obj == SetKey(acc, Unquote(s[k]), r.val) IN
          IF q > Len(s) THEN ParseFail
          ELSE IF s[q] = "," THEN ParseMembers(s, q + 1, obj)
          ELSE IF s[q] = "}" THEN ParseOk([t |-> "obj", v |-> obj], q + 1)
          ELSE ParseFail

\* JSON.parse(s): one value, whitespace around it, nothing else; a
\* SyntaxError otherwise.
JsonParse(s) ==
  LET r == ParseValue(s, 1) IN
    IF r.ok /\ SkipWs(s, r.pos) = Len(s) + 1
      THEN [ok |-> TRUE, val |-> r.val]
      ELSE [ok |-> FALSE, val |-> [t |-> "none", v |-> 0]]

\* ------------------------------------------------------------- the replies
\* The reply text of a model that extracted the expense amounts `amounts`
\* and reports `total`: {"expenses":[{"amount":a},...],"totalAmount":t}
RECURSIVE NumberText(_)
NumberText(n) ==
  IF n < 10 THEN <<DigitChar(n)>> ELSE NumberText(n \div 10) \o <<DigitChar(n % 10)>>

RECURSIVE ItemsText(_)
ItemsText(amounts) ==
  IF amounts = <<>> THEN <<>>
  ELSE <<"{", "\"amount\"", ":">> \o NumberText(Head(amounts)) \o <<"}">>
       \o (IF Len(amounts) > 1 THEN <<",">> ELSE <<>>)
       \o ItemsText(Tail(amounts))

ExpenseText(amounts, total) ==
  <<"{", "\"expenses\"", ":", "[">> \o ItemsText(amounts)
    \o <<"]", ",", "\n", "\"totalAmount\"", ":">> \o NumberText(total) \o <<"}">>

\* What the caller reads from a parsed ExpenseResponse.
TotalAmount(val) == val.v.totalAmount.v
Amounts(val) == [k \in DOMAIN val.v.expenses.v |-> val.v.expenses.v[k].v.amount.v]

RECURSIVE Sum(_)
Sum(amounts) == IF amounts = <<>> THEN 0 ELSE Head(amounts) + Sum(Tail(amounts))

\* T between an opening ```json fence and a closing ``` fence.
Fenced(T) == FenceJson \o <<"\n">> \o T \o <<"\n">> \o Fence

\* response.text of a reply without text.
Undefined == <<"undefined">>

\* No reply has come to the current call of operation().
NoResponse == <<"no response">>

\* JSON.parse was not called in the current call of operation().
NotParsed == <<"not parsed">>

\* The replies the two concurrent invocations are served (Spec).
ReplyTexts ==
  { ExpenseText(<<1, 2>>, 3),
    Fenced(ExpenseText(<<2>>, 1)),
    <<"{", "\"expenses\"", ":">>,
    <<>>,
    Undefined }

\* What the model may report: any amounts within the bounds, with a total
\* that is their sum or is not.
AmountLists == UNION {[1..n -> 1..MaxAmount] : n \in 0..MaxExpenses}
Reports ==
  {[amounts |-> a, total |-> t] : a \in AmountLists, t \in 0..(MaxAmount * MaxExpenses + 1)}
Responses == {r \in Reports : r.total \in {0, Sum(r.amounts), Sum(r.amounts) + 1}}

\* Texts that parse, texts that do not.
JsonTexts ==
  {ExpenseText(r.amounts, r.total) : r \in Responses}
    \cup { <<"1", "0">>, <<"[", "]">>, <<" ", "[", "1", ",", "\"INR\"", "]", "\n">>,
           <<"{", "}">>, <<"\"INR\"">>, <<"{", "\"amount\"", ":", "1", ",", "\"amount\"", ":", "2", "}">> }
BrokenTexts ==
  { <<"{", "\"expenses\"", ":">>, <<"0", "1">>, <<"[", "1", ",", "]">>, <<"nbsp">>,
    <<"[", "nbsp", "]">>, <<"j", "s", "o", "n">>, Fence, FenceJson,
    <<"{", "\"amount\"", "}">>, <<"1", "bq", "bq", "bq">>, <<"nbsp", "1">> }

\* A text as the model may wrap it.
Wrappings(T) ==
  { T,
    <<"nbsp", "\n">> \o T \o <<" ", "nbsp">>,
    Fenced(T),
    FenceJson \o T \o Fence,
    <<"\n", "nbsp">> \o Fenced(T) \o <<"nbsp", "\n">>,
    Fence \o <<"\n">> \o T \o <<"\n">> \o Fence,
    FenceJson \o <<"\n">> \o T }

\* The replies the single invocation is served (SpecOne).
AllTexts ==
  UNION {Wrappings(T) : T \in JsonTexts \cup BrokenTexts} \cup {<<>>, Undefined}

\* ------------------------------------------------------------ blobToBase64
Invocations == {"inv1", "inv2"}

BlobTypes == {"", "audio/mp4"}
BlobBytes == {"A", "B"}
Blobs == [type : BlobTypes, bytes : BlobBytes]
NoBlob == [type |-> "", bytes |-> "none"]

\* Base64 of the blob's bytes.
Base64(bytes) == CASE bytes = "A" -> "QQ==" [] bytes = "B" -> "Qg=="

\* reader.result after readAsDataURL: data:<type>;base64,<payload>
DataURL(b) ==
  <<"data:", IF b.type = "" THEN "application/octet-stream" ELSE b.type,
    ";base64", ",", Base64(b.bytes)>>

\* String.prototype.split(','): the parts of s between the commas.
RECURSIVE SplitComma(_, _)
SplitComma(s, part) ==
  IF s = <<>> THEN <<part>>
  ELSE IF Head(s) = "," THEN <<part>> \o SplitComma(Tail(s), <<>>)
  ELSE SplitComma(Tail(s), Append(part, Head(s)))

\* The mutant of Base64OfDataURL that keeps the part before the comma.
Base64OfDataURLTakesPrefix(url) == SplitComma(url, <<>>)[1]

\* base64data.split(',')[1]
Base64OfDataURL(url) ==
  LET parts == SplitComma(url, <<>>) IN
    IF Len(parts) >= 2 THEN parts[2] ELSE Undefined

\* ------------------------------------------------------------------- state
VARIABLES
  pc,           \* where each invocation is: idle, reading, calling, waiting,
                \* resolved, rejected
  audioBlob,    \* the argument of the invocation
  base64Audio,  \* the encoded audio, once read
  retries,      \* retryOperation's parameter in the current frame
  delay,        \* retryOperation's parameter in the current frame
  depth,        \* how many retryOperation frames call the current one
  lastText,     \* response.text in the latest call of operation()
  cleanText,    \* the argument of JSON.parse in the latest call of operation()
  outcome,      \* how the promise of the invocation settled
  log           \* what the invocation did, in order

vars ==
  <<pc, audioBlob, base64Audio, retries, delay, depth, lastText, cleanText, outcome, log>>

\* retryOperation's default parameters.
DefaultRetries == 2
DefaultDelay == 1000

Pending == [status |-> "pending", value |-> [kind |-> "none", attempt |-> 0]]
Resolved(val) == [status |-> "resolved", value |-> val]
Rejected(err) == [status |-> "rejected", value |-> err]

Event(ev, x) == [ev |-> ev, x |-> x]
Events(i, ev) == SelectSeq(log[i], LAMBDA e : e.ev = ev)
NumCalls(i) == Len(Events(i, "call"))
NumWaits(i) == Len(Events(i, "wait"))
NumReads(i) == Len(Events(i, "read"))
NumFails(i) == Len(Events(i, "fail"))

\* The error object an attempt raises; each attempt raises its own.
Error(kind, i) == [kind |-> kind, attempt |-> NumCalls(i)]
EmptyResponseError(i) == Error("Empty response from Gemini", i)
SyntaxError(i) == Error("SyntaxError", i)
ServiceError(i) == Error("ServiceError", i)
ReadErrorEvent == [kind |-> "FileReader error", attempt |-> 0]

\* mimeType: audioBlob.type || 'audio/webm'
MimeType(b) == IF b.type # "" THEN b.type ELSE "audio/webm"

\* The mutant of HasText that takes the empty string for a text.
HasTextUnlessMissing(text) == text # Undefined

\* if (response.text)
HasText(text) == text # Undefined /\ text # <<>>

\* The mutants of ShouldRetry: one retry too many; service errors only.
ShouldRetryOnceMore(error, r) == r >= 0
ShouldRetryServiceErrorsOnly(error, r) == r > 0 /\ error.kind = "ServiceError"

\* if (retries > 0)
ShouldRetry(error, r) == r > 0

\* The mutant of NextDelay that does not back off.
NextDelayFixed(d) == d

\* delay * 2
NextDelay(d) == d * 2

\* The mutant of RetryFrame that keeps retries and delay at module level.
RetryFrameShared(i) == "inv1"

\* The retryOperation frame whose retries and delay invocation i reads and
\* writes: they are parameters, so each invocation has its own.
RetryFrame(i) == i

\* The mutant of ParsedReply that makes totalAmount the sum of the amounts.
ParsedReplyRecomputingTotal(text) ==
  LET r == JsonParse(CleanText(text)) IN
    IF r.ok /\ r.val.t = "obj" /\ {"expenses", "totalAmount"} \subseteq DOMAIN r.val.v
      THEN [r EXCEPT !.val.v.totalAmount.v = Sum(Amounts(r.val))]
      ELSE r

\* JSON.parse(cleanText) as ExpenseResponse: the value is returned as parsed.
ParsedReply(text) == JsonParse(CleanText(text))

\* ----------------------------------------------------------------- actions
\* processAudioWithGemini(b) is called: blobToBase64 starts the read.
Invoke(i) ==
  /\ pc[i] = "idle"
  /\ \E b \in Blobs :
       audioBlob' = [audioBlob EXCEPT ![i] = b]
  /\ pc' = [pc EXCEPT ![i] = "reading"]
  /\ log' = [log EXCEPT ![i] = Append(@, Event("read", 0))]
  /\ UNCHANGED <<base64Audio, retries, delay, depth, lastText, cleanText, outcome>>

\* operation() is called in the current frame: the request is sent with its
\* inlineData part, and there is no response yet.
SendRequest(i, data) ==
  /\ pc' = [pc EXCEPT ![i] = "calling"]
  /\ lastText' = [lastText EXCEPT ![i] = NoResponse]
  /\ cleanText' = [cleanText EXCEPT ![i] = NotParsed]
  /\ log' = [log EXCEPT ![i] =
       Append(@, Event("call", [mimeType |-> MimeType(audioBlob[i]), data |-> data]))]

\* reader.onloadend: the payload is cut out of the data URL, and
\* retryOperation(operation) makes the first attempt.
ReadLoadEnd(i) ==
  /\ pc[i] = "reading"
  /\ LET data == Base64OfDataURL(DataURL(audioBlob[i])) IN
       /\ base64Audio' = [base64Audio EXCEPT ![i] = data]
       /\ SendRequest(i, data)
  /\ retries' = [retries EXCEPT ![RetryFrame(i)] = DefaultRetries]
  /\ delay' = [delay EXCEPT ![RetryFrame(i)] = DefaultDelay]
  /\ UNCHANGED <<audioBlob, depth, outcome>>

\* The mutant of ReadError that treats the read error as a failed attempt.
ReadErrorRetried(i) ==
  /\ pc[i] = "reading"
  /\ pc' = [pc EXCEPT ![i] = "waiting"]
  /\ log' = [log EXCEPT ![i] =
       @ \o <<Event("readerror", ReadErrorEvent), Event("wait", DefaultDelay)>>]
  /\ retries' = [retries EXCEPT ![RetryFrame(i)] = DefaultRetries]
  /\ delay' = [delay EXCEPT ![RetryFrame(i)] = DefaultDelay]
  /\ UNCHANGED <<audioBlob, base64Audio, depth, lastText, cleanText, outcome>>

\* reader.onerror: the promise of blobToBase64 rejects, and with it the
\* invocation, before retryOperation is reached.
ReadError(i) ==
  /\ pc[i] = "reading"
  /\ pc' = [pc EXCEPT ![i] = "rejected"]
  /\ outcome' = [outcome EXCEPT ![i] = Rejected(ReadErrorEvent)]
  /\ log' = [log EXCEPT ![i] = Append(@, Event("readerror", ReadErrorEvent))]
  /\ UNCHANGED <<audioBlob, base64Audio, retries, delay, depth, lastText, cleanText>>

\* The catch of retryOperation, the attempt having raised `error` after the
\* events `seen`: wait and retry while retries are left, rethrow otherwise.
AttemptFailed(i, seen, error) ==
  IF ShouldRetry(error, retries[RetryFrame(i)])
    THEN /\ pc' = [pc EXCEPT ![i] = "waiting"]
         /\ log' = [log EXCEPT ![i] =
              @ \o seen \o <<Event("fail", error), Event("wait", delay[RetryFrame(i)])>>]
         /\ UNCHANGED outcome
    ELSE /\ pc' = [pc EXCEPT ![i] = "rejected"]
         /\ log' = [log EXCEPT ![i] = @ \o seen \o <<Event("fail", error)>>]
         /\ outcome' = [outcome EXCEPT ![i] = Rejected(error)]

\* ai.models.generateContent rejects (network or API error).
ModelThrows(i) ==
  /\ pc[i] = "calling"
  /\ AttemptFailed(i, <<>>, ServiceError(i))
  /\ UNCHANGED <<audioBlob, base64Audio, retries, delay, depth, lastText, cleanText>>

\* ai.models.generateContent resolves with a reply whose text is `text`.
ModelReplies(i, text) ==
  /\ pc[i] = "calling"
  /\ lastText' = [lastText EXCEPT ![i] = text]
  /\ cleanText' = [cleanText EXCEPT ![i] = IF HasText(text) THEN CleanText(text) ELSE NotParsed]
  /\ IF HasText(text)
       THEN LET r == ParsedReply(text)
                seen == <<Event("reply", "text"), Event("parse", 0)>> IN
              IF r.ok
                THEN /\ pc' = [pc EXCEPT ![i] = "resolved"]
                     /\ outcome' = [outcome EXCEPT ![i] = Resolved(r.val)]
                     /\ log' = [log EXCEPT ![i] = @ \o seen \o <<Event("ok", 0)>>]
                ELSE AttemptFailed(i, seen, SyntaxError(i))
       ELSE AttemptFailed(i, <<Event("reply", "no text")>>, EmptyResponseError(i))
  /\ UNCHANGED <<audioBlob, base64Audio, retries, delay, depth>>

\* The timer of the wait fires: retryOperation(operation, retries - 1,
\* delay * 2) makes the next attempt, one frame deeper.
TimerFires(i) ==
  /\ pc[i] = "waiting"
  /\ retries' = [retries EXCEPT ![RetryFrame(i)] = @ - 1]
  /\ delay' = [delay EXCEPT ![RetryFrame(i)] = NextDelay(@)]
  /\ depth' = [depth EXCEPT ![i] = @ + 1]
  /\ SendRequest(i, base64Audio[i])
  /\ UNCHANGED <<audioBlob, base64Audio, outcome>>

Init ==
  /\ pc = [i \in Invocations |-> "idle"]
  /\ audioBlob = [i \in Invocations |-> NoBlob]
  /\ base64Audio = [i \in Invocations |-> Undefined]
  /\ retries = [i \in Invocations |-> DefaultRetries]
  /\ delay = [i \in Invocations |-> DefaultDelay]
  /\ depth = [i \in Invocations |-> 0]
  /\ lastText = [i \in Invocations |-> NoResponse]
  /\ cleanText = [i \in Invocations |-> NotParsed]
  /\ outcome = [i \in Invocations |-> Pending]
  /\ log = [i \in Invocations |-> <<>>]

\* Two invocations at once, in any interleaving.
Next ==
  \E i \in Invocations :
    \/ Invoke(i)
    \/ ReadLoadEnd(i)
    \/ ReadError(i)
    \/ ModelThrows(i)
    \/ \E text \in ReplyTexts : ModelReplies(i, text)
    \/ TimerFires(i)

Spec == Init /\ [][Next]_vars

\* Every read, model call and timer completes.
Fairness ==
  \A i \in Invocations :
    /\ WF_vars(ReadLoadEnd(i) \/ ReadError(i))
    /\ WF_vars(ModelThrows(i) \/ \E text \in ReplyTexts : ModelReplies(i, text))
    /\ WF_vars(TimerFires(i))

FairSpec == Spec /\ Fairness

\* One invocation, served any of the texts.
NextOne ==
  \/ Invoke("inv1")
  \/ ReadLoadEnd("inv1")
  \/ ReadError("inv1")
  \/ ModelThrows("inv1")
  \/ \E text \in AllTexts : ModelReplies("inv1", text)
  \/ TimerFires("inv1")

SpecOne == Init /\ [][NextOne]_vars

\* ------------------------------------------------------------ properties
Finished(i) == pc[i] \in {"resolved", "rejected"}
LastEvent(i) == log[i][Len(log[i])]
LastFail(i) == Events(i, "fail")[NumFails(i)].x
\* How many of the first p events of invocation i are `ev` events.
CountUpTo(i, p, ev) == Len(SelectSeq(SubSeq(log[i], 1, p), LAMBDA e : e.ev = ev))
FailKinds(i) == {Events(i, "fail")[k].x.kind : k \in 1..NumFails(i)}
RECURSIVE TotalWait(_)
TotalWait(ws) == IF ws = <<>> THEN 0 ELSE Head(ws).x + TotalWait(Tail(ws))

\* C1: an invocation never makes a 4th model call; when every call failed it
\* stops only after the 3rd, rejecting with the very error the 3rd attempt
\* raised.
C1_ThreeAttemptsThenLastError ==
  \A i \in Invocations :
    /\ NumCalls(i) <= 3
    /\ (NumCalls(i) > 0 /\ NumFails(i) = NumCalls(i))
         => (Finished(i) <=> NumCalls(i) = 3)
    /\ (pc[i] = "rejected" /\ NumCalls(i) > 0)
         => /\ NumCalls(i) = 3
            /\ NumFails(i) = 3
            /\ LastFail(i).attempt = 3
            /\ outcome[i] = Rejected(LastFail(i))

C1_Witness ==
  \E i \in Invocations :
    pc[i] = "rejected" /\ NumCalls(i) = 3 /\ outcome[i].value.attempt = 3

\* C2: the k-th wait lasts 1000*2^(k-1) ms; every call but the first comes
\* right after one wait, which comes right after a failure; nothing follows a
\* success or the final failure; two failures then a success resolve with the
\* third reply after waits of 1000 and 2000 ms.
C2_BackoffSchedule ==
  \A i \in Invocations :
    /\ \A k \in 1..NumWaits(i) : Events(i, "wait")[k].x = 1000 * 2^(k - 1)
    /\ NumCalls(i) > 0 =>
         NumWaits(i) = NumCalls(i) - (IF pc[i] = "waiting" THEN 0 ELSE 1)
    /\ \A p \in 1..Len(log[i]) :
         /\ (log[i][p].ev = "call" /\ CountUpTo(i, p, "call") > 1)
              => log[i][p - 1].ev = "wait" /\ log[i][p - 2].ev = "fail"
         /\ log[i][p].ev = "wait"
              => /\ log[i][p - 1].ev = "fail"
                 /\ p < Len(log[i]) => log[i][p + 1].ev = "call"
         /\ log[i][p].ev = "ok" => p = Len(log[i]) /\ pc[i] = "resolved"
    /\ pc[i] = "rejected" => LastEvent(i).ev \in {"fail", "readerror"}
    /\ (pc[i] = "resolved" /\ NumFails(i) = 2)
         => /\ NumCalls(i) = 3
            /\ Events(i, "wait") = <<Event("wait", 1000), Event("wait", 2000)>>
            /\ outcome[i] = Resolved(JsonParse(CleanText(lastText[i])).val)

C2_Witness ==
  \E i \in Invocations :
    pc[i] = "resolved" /\ NumFails(i) = 2 /\ NumWaits(i) = 2

\* C3: whatever its kind, the 1st failure is followed by a wait of 1000 ms and
\* the 2nd by a wait of 2000 ms, the 3rd ends the invocation with that error;
\* the retries left always are 2 minus the retries made.
C3_UniformRetry ==
  \A i \in Invocations :
    /\ NumCalls(i) <= 3
    /\ NumCalls(i) > 0 => retries[i] = 2 - (NumCalls(i) - 1)
    /\ \A p \in 1..Len(log[i]) :
         log[i][p].ev = "fail" =>
           LET k == CountUpTo(i, p, "fail") IN
             IF k <= 2
               THEN /\ p < Len(log[i])
                    /\ log[i][p + 1] = Event("wait", 1000 * 2^(k - 1))
               ELSE /\ p = Len(log[i])
                    /\ outcome[i] = Rejected(log[i][p].x)

C3_Witness ==
  \E i \in Invocations :
    /\ pc[i] = "rejected"
    /\ FailKinds(i) = {"ServiceError", "SyntaxError", "Empty response from Gemini"}

\* C4: after a read error the invocation is rejected with that error, having
\* made no model call and no wait.
C4_ReadErrorNotRetried ==
  \A i \in Invocations :
    Events(i, "readerror") # <<>>
      => /\ pc[i] = "rejected"
         /\ outcome[i] = Rejected(ReadErrorEvent)
         /\ NumCalls(i) = 0
         /\ NumWaits(i) = 0
         /\ log[i] = <<Event("read", 0), Event("readerror", ReadErrorEvent)>>

C4_Witness ==
  \E i \in Invocations :
    pc[i] = "rejected" /\ outcome[i].value = ReadErrorEvent /\ NumCalls(i) = 0

\* C5: an attempt whose reply has no text (empty or missing) fails with
\* "Empty response from Gemini" and JSON.parse is not called in it; when all
\* three replies have no text the invocation rejects with that error.
C5_EmptyResponse ==
  \A i \in Invocations :
    /\ (lastText[i] \in {<<>>, Undefined})
         => /\ pc[i] \in {"waiting", "rejected"}
            /\ LastFail(i) = EmptyResponseError(i)
            /\ cleanText[i] = NotParsed
            /\ Len(Events(i, "parse")) < Len(Events(i, "reply"))
    /\ (pc[i] = "rejected" /\ FailKinds(i) = {"Empty response from Gemini"})
         => NumCalls(i) = 3 /\ outcome[i] = Rejected(EmptyResponseError(i))

C5_Witness ==
  \E i \in Invocations :
    /\ pc[i] = "rejected"
    /\ lastText[i] = <<>>
    /\ FailKinds(i) = {"Empty response from Gemini"}
    /\ NumCalls(i) = 3

\* C9: the blob is read once, before the first call, and every call carries
\* the base64 of the blob's bytes and the blob's type (audio/webm when the
\* type is empty).
C9_EncodedOnce ==
  \A i \in Invocations :
    /\ NumReads(i) <= 1
    /\ NumCalls(i) > 0 => log[i][1].ev = "read"
    /\ \A k \in 1..NumCalls(i) :
         Events(i, "call")[k].x =
           [mimeType |-> IF audioBlob[i].type = "" THEN "audio/webm" ELSE audioBlob[i].type,
            data |-> <<Base64(audioBlob[i].bytes)>>]

C9_Witness ==
  \E i \in Invocations :
    NumCalls(i) = 3 /\ audioBlob[i].type = "" /\ audioBlob[i].bytes = "B"

\* The forms of T between a ```json fence and a ``` fence, whitespace around.
FencedForms(T) ==
  { Fenced(T),
    FenceJson \o T \o Fence,
    <<"\n", "nbsp">> \o Fenced(T) \o <<"nbsp", "\n">> }

\* The texts that parse as JSON, and their fenced forms.
ParsingTexts == {T \in JsonTexts \cup BrokenTexts : JsonParse(T).ok}
FencedReplies ==
  UNION {{[text |-> w, inner |-> T] : w \in FencedForms(T)} : T \in ParsingTexts}

\* C6: for every text T that parses as JSON, a reply that is T between a
\* ```json fence and a ``` fence resolves the invocation with the structure
\* the unwrapped reply T resolves it with, and the unwrapped T reaches the
\* parser trimmed and otherwise unmodified.
C6_FenceTransparent ==
  /\ \A T \in ParsingTexts :
       lastText["inv1"] = T =>
         /\ cleanText["inv1"] = Trim(T)
         /\ pc["inv1"] = "resolved"
         /\ outcome["inv1"] = Resolved(JsonParse(T).val)
  /\ \A r \in FencedReplies :
       lastText["inv1"] = r.text =>
         /\ pc["inv1"] = "resolved"
         /\ outcome["inv1"] = Resolved(JsonParse(r.inner).val)

C6_Witness ==
  /\ pc["inv1"] = "resolved"
  /\ lastText["inv1"] =
       <<"\n", "nbsp">> \o Fenced(ExpenseText(<<1, 2>>, 3)) \o <<"nbsp", "\n">>
  /\ outcome["inv1"].value = JsonParse(ExpenseText(<<1, 2>>, 3)).val

\* The replies that report amounts and a total, bare, fenced or padded.
ExpenseReplies ==
  UNION {{[text |-> w, report |-> r] : w \in Wrappings(ExpenseText(r.amounts, r.total))} :
           r \in Responses}

\* C8: a reply that reports amounts and a total, whether or not the total is
\* their sum, resolves the invocation in that very attempt with those amounts
\* and that total.
C8_NoValidation ==
  \A e \in ExpenseReplies :
    lastText["inv1"] = e.text =>
      /\ pc["inv1"] = "resolved"
      /\ LastEvent("inv1").ev = "ok"
      /\ NumFails("inv1") = NumCalls("inv1") - 1
      /\ Amounts(outcome["inv1"].value) = e.report.amounts
      /\ TotalAmount(outcome["inv1"].value) = e.report.total

C8_Witness ==
  /\ pc["inv1"] = "resolved"
  /\ NumCalls("inv1") = 1
  /\ lastText["inv1"] = ExpenseText(<<1, 2>>, 4)
  /\ Amounts(outcome["inv1"].value) = <<1, 2>>
  /\ TotalAmount(outcome["inv1"].value) = 4

\* The retries left and the next delay of invocation i follow from its own
\* calls alone.
OwnBudget(i) ==
  /\ NumCalls(i) <= 3
  /\ NumCalls(i) > 0 =>
       /\ retries[i] = 2 - (NumCalls(i) - 1)
       /\ delay[i] = 1000 * 2^(NumCalls(i) - 1)
  /\ \A k \in 1..NumWaits(i) : Events(i, "wait")[k].x = 1000 * 2^(k - 1)

\* A step of invocation i leaves every other invocation as it was.
OthersUntouched ==
  \A i, j \in Invocations :
    (i # j /\ log'[i] # log[i]) =>
      /\ pc'[j] = pc[j]
      /\ retries'[j] = retries[j]
      /\ delay'[j] = delay[j]
      /\ depth'[j] = depth[j]
      /\ outcome'[j] = outcome[j]
      /\ base64Audio'[j] = base64Audio[j]
      /\ lastText'[j] = lastText[j]
      /\ cleanText'[j] = cleanText[j]
      /\ log'[j] = log[j]

\* C7: in every interleaving of the two invocations, each one's retries and
\* delays follow from its own failures (at most 3 calls, waits of 1000 and
\* 2000 ms), and a step of one changes nothing of the other.
C7_Independent ==
  /\ [](\A i \in Invocations : OwnBudget(i))
  /\ [][OthersUntouched]_vars

C7_Witness ==
  /\ pc["inv1"] = "calling" /\ NumFails("inv1") = 2
  /\ pc["inv2"] = "waiting" /\ NumFails("inv2") = 1
  /\ retries["inv1"] = 0 /\ retries["inv2"] = 2

\* C10: an invocation makes at most 3 calls and 2 waits (3000 ms in all) and
\* nests retryOperation at most 2 deep; once started it finishes, reads,
\* calls and timers completing.
C10_Terminates ==
  /\ [](\A i \in Invocations :
          /\ NumCalls(i) <= 3
          /\ NumWaits(i) <= 2
          /\ TotalWait(Events(i, "wait")) <= 3000
          /\ depth[i] <= 2)
  /\ \A i \in Invocations : (pc[i] = "reading") ~> Finished(i)

C10_Witness ==
  \E i \in Invocations :
    /\ pc[i] = "rejected"
    /\ NumCalls(i) = 3
    /\ depth[i] = 2
    /\ TotalWait(Events(i, "wait")) = 3000

====
